---------------------------- MODULE Spec2Model ----------------------------
(***************************************************************************)
(* go-dynamo: the exponential backoff of backoff.go (FailConfig) and the   *)
(* three batch operations of db.go (BatchWriteCreate, BatchWriteDelete,    *)
(* BatchGet) that retry on it.                                             *)
(*                                                                         *)
(* One logical batch call is in flight at a time (the calls are            *)
(* synchronous).  One action is one iteration of the call's for-loop: the  *)
(* provider call, the classification of its answer, the backoff and the    *)
(* reset.  The provider's answer and the jittered wait are the inputs.     *)
(* The items of a call are named by their position in the input list,      *)
(* 1..n; float64 fields hold whole numbers and are modelled as integers.   *)
(***************************************************************************)
EXTENDS Integers, Sequences, FiniteSets, TLC

\* ------------------------------------------------------------- bounds
MaxItems == 2      \* non-nil items (keys) of one logical call
MaxCalls == 2      \* the provider-call counter saturates here
MaxAttempt == 1    \* a batch call draws no wait beyond this Attempt
MaxBase == 1       \* batch calls: FailConfig.Base ranges over 1..MaxBase
MaxCap == 1        \* batch calls: FailConfig.Cap ranges over 0..MaxCap
MaxDirectAttempt == 3  \* FailConfig on its own: no draw beyond this Attempt
MaxDirectBase == 2     \* FailConfig on its own: Base ranges over 1..MaxDirectBase
MaxDirectCap == 4      \* FailConfig on its own: Cap ranges over 0..MaxDirectCap

\* ---------------------------------------------------------- constants
WriteLimit == 25
ReadLimit == 100
NsPerMs == 1000000

\* a map of unprocessed items: nil, or the identities it holds
NilMap == [nil |-> TRUE, items |-> {}]
Map(S) == [nil |-> FALSE, items |-> S]
NoErr == "none"                               \* err == nil
ErrCodeInternalServerError == "InternalServerError"
\* the codes a provider error carries: the 5xx code and one that is not
ErrCodes == {ErrCodeInternalServerError, "ValidationException"}
Ops == {"BatchWriteCreate", "BatchWriteDelete", "BatchGet"}

VARIABLES
    fc,          \* the FailConfig the calls share
    wait,        \* candidate wait (ms) the latest step drew, -1 if it drew none
    slept,       \* time (ns) the latest step slept in ExponentialBackoff
    op,          \* the logical call in flight or last finished
    phase,       \* "Idle", "Running", "Succeeded", "Failed"
    n,           \* number of non-nil items of the call: identities 1..n
    input,       \* RequestItems of the next provider call
    calls,       \* provider calls issued by this logical call
    backoffs,    \* ExponentialBackoff invocations since the latest provider call
    lastErr,     \* error of the latest provider response
    lastUnproc,  \* UnprocessedItems / UnprocessedKeys of the latest response
    slots,       \* BatchGet: refObjs, the record decoded into each slot
    ret,         \* the value returned to the caller
    size,        \* len(items) / len(queries) of the call
    nrefs,       \* BatchGet: len(refObjs) of the call
    fcCalls      \* the FailConfig methods the latest step called, in order

vars == <<fc, wait, slept, op, phase, n, input, calls, backoffs, lastErr,
          lastUnproc, slots, ret, size, nrefs, fcCalls>>

callVars == <<op, phase, n, input, calls, backoffs, lastErr, lastUnproc,
              slots, ret, size, nrefs>>

\* -------------------------------------------------------- backoff.go
Pow2(k) == 2 ^ k

Min(a, b) == IF a < b THEN a ELSE b

\* a draw that may reach its upper bound
WaitRangeInclusive(f) == 0 .. (f.Base * Pow2(f.Attempt + 1))

\* rand.Intn(int(fc.Base * math.Pow(2.0, fc.Attempt))) after Attempt += 1
WaitRange(f) == 0 .. (f.Base * Pow2(f.Attempt + 1) - 1)

\* the clamp branch: Elapsed is set to Cap when the candidate passes the cap
Clamp(f, w) == IF f.Elapsed + w > f.Cap THEN f.Cap ELSE f.Elapsed

\* time.Sleep returns at once for a duration <= 0
SleepNs(d) == IF d > 0 THEN d ELSE 0

\* the test at the cap without its return: the flag is set and the draw follows
ExponentialBackoffNoReturn(f, w) ==
    [f EXCEPT !.MaxRetriesReached = (f.Elapsed = f.Cap) \/ f.MaxRetriesReached,
              !.Attempt = f.Attempt + 1,
              !.Elapsed = Clamp(f, w) + w]

\* the test at the cap as Elapsed >= Cap
ExponentialBackoffPastCap(f, w) ==
    IF f.Elapsed >= f.Cap
    THEN [f EXCEPT !.MaxRetriesReached = TRUE]
    ELSE [f EXCEPT !.Attempt = f.Attempt + 1,
                   !.Elapsed = Clamp(f, w) + w]

\* a backoff that starts its count again once it is exhausted
ExponentialBackoffRestart(f, w) ==
    IF f.Elapsed = f.Cap
    THEN [f EXCEPT !.MaxRetriesReached = TRUE, !.Attempt = 0]
    ELSE [f EXCEPT !.Attempt = f.Attempt + 1,
                   !.Elapsed = Clamp(f, w) + w]

ExponentialBackoff(f, w) ==
    IF f.Elapsed = f.Cap
    THEN [f EXCEPT !.MaxRetriesReached = TRUE]
    ELSE [f EXCEPT !.Attempt = f.Attempt + 1,
                   !.Elapsed = Clamp(f, w) + w]

\* the two sleeps of one ExponentialBackoff call, in nanoseconds
BackoffSleep(f, w) ==
    IF f.Elapsed = f.Cap
    THEN 0
    ELSE (IF f.Elapsed + w > f.Cap
          THEN SleepNs(w - (w + f.Elapsed - f.Cap))
          ELSE 0)
         + SleepNs(w * NsPerMs)

\* a reset that leaves the flag as it is
ResetKeepsFlag(f) == [f EXCEPT !.Attempt = 0, !.Elapsed = 0]

Reset(f) == [f EXCEPT !.Attempt = 0, !.Elapsed = 0, !.MaxRetriesReached = FALSE]

\* the candidate waits a call of ExponentialBackoff on f can draw
Draws(f) == IF f.Elapsed = f.Cap THEN {0} ELSE WaitRange(f)

\* the candidate a call records: none when it returns before the draw
Drawn(f, w) == IF f.Elapsed = f.Cap THEN -1 ELSE w

\* model bound: no draw with Attempt beyond max
CanBackoff(f, max) == f.Elapsed = f.Cap \/ f.Attempt < max

\* -------------------------------------------------------------- errors
\* error values: nil, the provider's own awserr.Error, or a fmt.Errorf text
NoError == [type |-> "nil", op |-> "", msg |-> "", code |-> ""]

AwsErr(c) == [type |-> "awserr", op |-> "", msg |-> "", code |-> c]

Errorf(o, m, c) == [type |-> "fmt", op |-> o, msg |-> m, code |-> c]

\* the results a batch function hands back: error (and, for BatchGet, the item
\* list, nil on every error path).  No result carries the unprocessed set, so
\* that component of the returned value is always absent.
Result(e) == [err |-> e, unprocessed |-> NilMap]

NoResult == Result(NoError)

\* --------------------------------------------------------------- db.go
\* a classification that takes every provider error for a 5xx error
IsRetryableAnyCode(code) == code \in ErrCodes

\* err.(awserr.Error).Code() == dynamodb.ErrCodeInternalServerError
IsRetryable(code) == code = ErrCodeInternalServerError

\* a retry branch entered on every answer with a non-nil unprocessed map
RetryBranchAnyAnswer(err, unproc) == ~unproc.nil

\* the retry branch: a 5xx error and a non-nil unprocessed map
RetryBranch(err, unproc) ==
    err # NoErr /\ IsRetryable(err) /\ ~unproc.nil

\* the abort branch: an error that is no 5xx error
AbortBranch(err) == err # NoErr /\ ~IsRetryable(err)

\* len(result.UnprocessedItems) == 0: a nil map has length 0
Drained(unproc) == Cardinality(unproc.items) = 0

\* the error a non-5xx provider error is returned as
AbortError(o, err) ==
    IF o = "BatchWriteCreate" THEN AwsErr(err) ELSE Errorf(o, "failed", err)

\* BatchGet: the three tests of the error code, in the order of the code
GetAbortBranch(err) ==
    /\ err # NoErr
    /\ \/ ~IsRetryable(err)
       \/ err = "ValidationException"
       \/ err = "RequestError"

GetAbortError(o, err) ==
    IF ~IsRetryable(err) THEN Errorf(o, "failed", err) ELSE AwsErr(err)

ExhaustedError(o, err) == Errorf(o, "Max retries exceeded", err)

\* a next request built again from the whole input when no retry is due
NextInputRebuilt(in, err, unproc) ==
    IF RetryBranch(err, unproc) THEN unproc.items ELSE 1..n

\* the request of the next round
NextInput(in, err, unproc) ==
    IF RetryBranch(err, unproc) THEN unproc.items ELSE in

\* the size test as len >= limit
SizeLimitInclusive(o) == IF o = "BatchGet" THEN ReadLimit - 1 ELSE WriteLimit - 1

SizeLimit(o) == IF o = "BatchGet" THEN ReadLimit ELSE WriteLimit

\* the provider-call counter, saturating at MaxCalls
Bump(c) == IF c < MaxCalls THEN c + 1 ELSE c

\* what a provider may answer to a request: an optional error, and as
\* unprocessed a nil map or some of the request
Answers(in) == {NilMap} \cup {Map(S) : S \in SUBSET in}

Perms(S) ==
    {s \in [1..Cardinality(S) -> S] : \A i, j \in 1..Cardinality(S) : s[i] = s[j] => i = j}

\* the sequences of distinct records over the keys S, in any order (a table:
\* @@ with the empty function makes it one that is computed once)
Orderings ==
    [S \in SUBSET (1..MaxItems) |-> UNION {Perms(T) : T \in SUBSET S}] @@ << >>

\* BatchGet: the records of one response, in any order, for requested keys
\* the provider did not leave unprocessed
Responses(in, unproc) == Orderings[in \ unproc.items]

Partial == -1      \* a slot a failed UnmarshalMap has written in part

\* for i, r := range result.Responses: UnmarshalMap(r, &refObjs[i]), stopping
\* at the first record (bad) that fails to decode; bad = 0: none fails
Decode(sl, recs, bad) ==
    [i \in DOMAIN sl |->
        IF i <= Len(recs) /\ (bad = 0 \/ i < bad) THEN recs[i]
        ELSE IF i = bad THEN Partial
        ELSE sl[i]]

\* the length of the input list of a call: up to MaxItems entries, nil or not
LenChoices == 0..MaxItems

\* the lengths at the size limit of an operation: the longest list it takes
\* and the shortest it refuses
LimitLens(o) ==
    IF o = "BatchGet" THEN {ReadLimit, ReadLimit + 1}
    ELSE {WriteLimit, WriteLimit + 1}

EmptySlots(k) == [i \in 1..k |-> 0]

\* a FailConfig as its comment asks: Attempt, Elapsed, MaxRetriesReached
\* initialized to 0, 0, false
Configs(bmax, cmax) ==
    {[Base |-> b, Cap |-> c, Attempt |-> 0, Elapsed |-> 0,
      MaxRetriesReached |-> FALSE] : b \in 1..bmax, c \in 0..cmax}

StartState ==
    /\ wait = -1
    /\ slept = 0
    /\ op = "none"
    /\ phase = "Idle"
    /\ n = 0
    /\ input = {}
    /\ calls = 0
    /\ backoffs = 0
    /\ lastErr = NoErr
    /\ lastUnproc = NilMap
    /\ slots = EmptySlots(0)
    /\ ret = NoResult
    /\ size = 0
    /\ nrefs = 0
    /\ fcCalls = <<>>

Init == fc \in Configs(MaxBase, MaxCap) /\ StartState

\* var DefaultFailConfig = &FailConfig{50, 60000, 0, 0, false}
DefaultFailConfig ==
    [Base |-> 50, Cap |-> 60000, Attempt |-> 0, Elapsed |-> 0,
     MaxRetriesReached |-> FALSE]

\* the calls are handed the package's DefaultFailConfig
DefaultInit == fc = DefaultFailConfig /\ StartState

BackoffInit == fc \in Configs(MaxDirectBase, MaxDirectCap) /\ StartState

\* the part of a batch function before its for-loop: the size checks and the
\* building of the request.  len is the length of the input list, k the
\* number of its non-nil entries, refs the length of refObjs (BatchGet),
\* enc whether MarshalMap encodes every item (BatchWriteCreate).
Begin(o, len, k, refs, enc, ph, e) ==
    /\ phase = "Idle"
    /\ op' = o
    /\ phase' = ph
    /\ ret' = Result(e)
    /\ n' = IF ph = "Running" THEN k ELSE 0
    /\ input' = IF ph = "Running" THEN 1..k ELSE {}
    /\ slots' = IF o = "BatchGet" THEN EmptySlots(k) ELSE EmptySlots(0)
    /\ size' = len
    /\ nrefs' = refs
    /\ UNCHANGED <<fc, wait, slept, calls, backoffs, lastErr, lastUnproc, fcCalls>>

\* the checks before the loop without the one of len(refObjs)
StartCallNoRefTest(o, len, k, refs, enc) ==
    IF len > SizeLimit(o)
    THEN Begin(o, len, k, refs, enc, "Failed",
               Errorf(o, "too many items to process", ""))
    ELSE IF o = "BatchWriteCreate" /\ k >= 1 /\ ~enc
    THEN Begin(o, len, k, refs, enc, "Failed", Errorf(o, "failed", "marshal"))
    ELSE Begin(o, len, k, refs, enc, "Running", NoError)

StartCall(o, len, k, refs, enc) ==
    IF len > SizeLimit(o)
    THEN Begin(o, len, k, refs, enc, "Failed",
               Errorf(o, "too many items to process", ""))
    ELSE IF o = "BatchGet" /\ len # refs
    THEN Begin(o, len, k, refs, enc, "Failed",
               Errorf(o, "number of queries does not match number of reference objects", ""))
    ELSE IF o = "BatchWriteCreate" /\ k >= 1 /\ ~enc
    THEN Begin(o, len, k, refs, enc, "Failed", Errorf(o, "failed", "marshal"))
    ELSE Begin(o, len, k, refs, enc, "Running", NoError)

\* the FailConfig methods one iteration calls: ExponentialBackoff in the
\* retry branch, then Reset when the unprocessed set is empty
MethodCalls(retry, done) ==
    (IF retry THEN <<"ExponentialBackoff">> ELSE <<>>)
        \o (IF done THEN <<"Reset">> ELSE <<>>)

\* one iteration of the for-loop of BatchWriteCreate / BatchWriteDelete:
\* the provider answers (err, unproc); w is the jittered wait drawn if the
\* iteration calls ExponentialBackoff
WriteRound(err, unproc, w) ==
    LET retry == RetryBranch(err, unproc)
        abort == AbortBranch(err)
        f1 == IF retry THEN ExponentialBackoff(fc, w) ELSE fc
        exhausted == retry /\ f1.MaxRetriesReached
        done == ~abort /\ ~exhausted /\ Drained(unproc)
    IN  /\ phase = "Running"
        /\ op \in {"BatchWriteCreate", "BatchWriteDelete"}
        /\ retry => CanBackoff(fc, MaxAttempt)
        /\ calls' = Bump(calls)
        /\ lastErr' = err
        /\ lastUnproc' = unproc
        /\ input' = NextInput(input, err, unproc)
        /\ backoffs' = IF retry THEN 1 ELSE 0
        /\ wait' = IF retry THEN Drawn(fc, w) ELSE -1
        /\ slept' = IF retry THEN BackoffSleep(fc, w) ELSE 0
        /\ fc' = IF done THEN Reset(f1) ELSE f1
        /\ phase' = IF abort \/ exhausted THEN "Failed"
                    ELSE IF done THEN "Succeeded" ELSE "Running"
        /\ ret' = IF abort THEN Result(AbortError(op, err))
                  ELSE IF exhausted THEN Result(ExhaustedError(op, err))
                  ELSE NoResult
        /\ fcCalls' = MethodCalls(retry, done)
        /\ UNCHANGED <<op, n, slots, size, nrefs>>

\* one iteration of the for-loop of BatchGet: recs are the records of the
\* response, bad the position of the first one UnmarshalMap rejects (0: none)
GetRound(err, unproc, recs, bad, w) ==
    LET retry == RetryBranch(err, unproc)
        abort == GetAbortBranch(err)
        f1 == IF retry THEN ExponentialBackoff(fc, w) ELSE fc
        exhausted == retry /\ f1.MaxRetriesReached
        decoding == ~abort /\ ~exhausted
        undecodable == decoding /\ bad # 0
        done == decoding /\ ~undecodable /\ Drained(unproc)
    IN  /\ phase = "Running"
        /\ op = "BatchGet"
        /\ retry => CanBackoff(fc, MaxAttempt)
        /\ calls' = Bump(calls)
        /\ lastErr' = err
        /\ lastUnproc' = unproc
        /\ input' = NextInput(input, err, unproc)
        /\ backoffs' = IF retry THEN 1 ELSE 0
        /\ wait' = IF retry THEN Drawn(fc, w) ELSE -1
        /\ slept' = IF retry THEN BackoffSleep(fc, w) ELSE 0
        /\ fc' = IF done THEN Reset(f1) ELSE f1
        /\ slots' = IF decoding THEN Decode(slots, recs, bad) ELSE slots
        /\ phase' = IF abort \/ exhausted \/ undecodable THEN "Failed"
                    ELSE IF done THEN "Succeeded" ELSE "Running"
        /\ ret' = IF abort THEN Result(GetAbortError(op, err))
                  ELSE IF exhausted THEN Result(ExhaustedError(op, err))
                  ELSE IF undecodable
                  THEN Result(Errorf(op, "Failed to unmarshal record", ""))
                  ELSE NoResult
        /\ fcCalls' = MethodCalls(retry, done)
        /\ UNCHANGED <<op, n, size, nrefs>>

\* the caller has the result: the locals of the call are gone, the
\* FailConfig stays as the call left it
Return ==
    /\ phase \in {"Succeeded", "Failed"}
    /\ wait' = -1
    /\ slept' = 0
    /\ op' = "none"
    /\ phase' = "Idle"
    /\ n' = 0
    /\ input' = {}
    /\ calls' = 0
    /\ backoffs' = 0
    /\ lastErr' = NoErr
    /\ lastUnproc' = NilMap
    /\ slots' = EmptySlots(0)
    /\ ret' = NoResult
    /\ size' = 0
    /\ nrefs' = 0
    /\ fcCalls' = <<>>
    /\ UNCHANGED fc

\* fc.ExponentialBackoff() called on its own, outside a batch call
DirectBackoff(w) ==
    /\ phase = "Idle"
    /\ CanBackoff(fc, MaxDirectAttempt)
    /\ fc' = ExponentialBackoff(fc, w)
    /\ wait' = Drawn(fc, w)
    /\ slept' = BackoffSleep(fc, w)
    /\ fcCalls' = <<"ExponentialBackoff">>
    /\ UNCHANGED callVars

\* fc.Reset() called on its own, outside a batch call
DirectReset ==
    /\ phase = "Idle"
    /\ fc' = Reset(fc)
    /\ wait' = -1
    /\ slept' = 0
    /\ fcCalls' = <<"Reset">>
    /\ UNCHANGED callVars

\* the non-nil entries of an input list of length len
NonNil(len) == IF len <= MaxItems THEN 0..len ELSE {MaxItems}

NonNilAtLimit == MaxItems

\* refObjs exists in BatchGet only, MarshalMap runs in BatchWriteCreate only
RefChoices(o, len) == IF o = "BatchGet" THEN {len, len + 1} ELSE {0}

EncChoices(o) == IF o = "BatchWriteCreate" THEN BOOLEAN ELSE {TRUE}

StartStep ==
    /\ phase = "Idle"
    /\ \E o \in Ops, len \in LenChoices :
         \E k \in NonNil(len), refs \in RefChoices(o, len), enc \in EncChoices(o) :
             StartCall(o, len, k, refs, enc)

\* a call with a list at the size limit: MaxItems non-nil entries, the rest nil
LimitStep ==
    /\ phase = "Idle"
    /\ \E o \in Ops :
         \E len \in LimitLens(o) :
             \E refs \in RefChoices(o, len), enc \in EncChoices(o) :
                 StartCall(o, len, NonNilAtLimit, refs, enc)

\* the wait is drawn only when the iteration calls ExponentialBackoff
RoundDraws(err, unproc) == IF RetryBranch(err, unproc) THEN Draws(fc) ELSE {0}

\* the records of a response are read only if the iteration reaches the
\* decoding loop: not after an abort or an exhausted backoff
Decoding(err, unproc, w) ==
    /\ ~GetAbortBranch(err)
    /\ ~(RetryBranch(err, unproc) /\ ExponentialBackoff(fc, w).MaxRetriesReached)

RecChoices(err, unproc, w) ==
    IF Decoding(err, unproc, w) THEN Responses(input, unproc) ELSE {<<>>}

\* the decoding loop returns at the first record that fails and reads none
\* after it: recs lists the records up to that one, so it is the last
BadChoices(err, unproc, recs, w) ==
    IF Decoding(err, unproc, w) THEN {0, Len(recs)} ELSE {0}

WriteStep ==
    /\ phase = "Running"
    /\ op \in {"BatchWriteCreate", "BatchWriteDelete"}
    /\ \E err \in {NoErr} \cup ErrCodes, unproc \in Answers(input) :
         \E w \in RoundDraws(err, unproc) : WriteRound(err, unproc, w)

GetStep ==
    /\ phase = "Running"
    /\ op = "BatchGet"
    /\ \E err \in {NoErr} \cup ErrCodes, unproc \in Answers(input) :
         \E w \in RoundDraws(err, unproc) : \E recs \in RecChoices(err, unproc, w) :
             \E bad \in BadChoices(err, unproc, recs, w) :
                 GetRound(err, unproc, recs, bad, w)

RoundStep == WriteStep \/ GetStep

BackoffStep == phase = "Idle" /\ \E w \in Draws(fc) : DirectBackoff(w)

\* the batch calls, one after another on the same FailConfig
Next ==
    \/ StartStep
    \/ WriteStep
    \/ GetStep
    \/ Return

Spec == Init /\ [][Next]_vars

\* a call in flight always runs its next iteration: the loop is synchronous
\* and every provider call returns
LiveSpec == Init /\ [][Next]_vars /\ WF_vars(RoundStep)

\* the batch calls on lists at the size limits
SizeNext ==
    \/ LimitStep
    \/ WriteStep
    \/ GetStep
    \/ Return

SizeSpec == Init /\ [][SizeNext]_vars

\* the batch calls, one after another on DefaultFailConfig
DefaultSpec == DefaultInit /\ [][Next]_vars

\* the FailConfig on its own: any sequence of ExponentialBackoff and Reset
BackoffNext ==
    \/ BackoffStep
    \/ DirectReset

BackoffSpec == BackoffInit /\ [][BackoffNext]_vars

\* ---------------------------------------------------------------- claims
Terminal == {"Succeeded", "Failed"}

\* the call goes on to another round after at least one provider round
GoesOn == phase = "Running" /\ calls >= 1

\* the call was ended by a provider error that is no 5xx error
Aborted == phase = "Failed" /\ calls >= 1 /\ lastErr \in ErrCodes \ {ErrCodeInternalServerError}

\* the call was ended by the backoff reporting exhaustion
Exhausted == phase = "Failed" /\ calls >= 1 /\ ret.err.msg = "Max retries exceeded"

\* C1: whenever a round leaves a non-empty unprocessed set and the call goes
\* on to another round, the request of that round is exactly the unprocessed
\* set the previous round returned, with or without an error in that round.
C1_NextRequestIsUnprocessed ==
    GoesOn => ~lastUnproc.nil /\ input = lastUnproc.items

\* C2: a call returns success only if its last provider round returned no
\* error and an empty unprocessed set; no provider error is swallowed.
C2_SuccessOnlyAfterCleanRound ==
    phase = "Succeeded" => lastErr = NoErr /\ Drained(lastUnproc)

\* C3: every logical batch call eventually terminates in Succeeded or Failed,
\* whatever the provider answers and whatever waits are drawn.
C3_CallTerminates == (phase = "Running") ~> (phase \in Terminal)

\* C4: after any sequence of ExponentialBackoff and Reset calls on a fresh
\* FailConfig, 0 <= Elapsed <= Cap.
C4_ElapsedWithinCap == 0 <= fc.Elapsed /\ fc.Elapsed <= fc.Cap

\* C5: an ExponentialBackoff call entered with Elapsed < Cap that draws w
\* leaves Elapsed = min(old Elapsed + w, Cap) and has slept exactly the
\* difference, in milliseconds.
C5_ClampedWait ==
    [][(fc.Elapsed < fc.Cap /\ wait' # -1) =>
          /\ fc'.Elapsed = Min(fc.Elapsed + wait', fc.Cap)
          /\ slept' = (Min(fc.Elapsed + wait', fc.Cap) - fc.Elapsed) * NsPerMs]_vars

\* C6: in BatchGet every record that has been decoded is in the slot at the
\* position of its key in the input key list: a slot is empty (or holds a
\* record whose decoding failed) or holds the record of its own key.
C6_RecordInItsKeySlot ==
    \A i \in DOMAIN slots : slots[i] \in {0, Partial, i}

\* C7: a provider round that returns a non-retryable error ends the call in
\* Failed at once, with an error: ExponentialBackoff is not invoked, nothing
\* is slept, and Attempt, Elapsed, MaxRetriesReached stay as they were; no
\* provider call follows in that logical call.
C7_NonRetryableAbortsAtOnce ==
    [][/\ (phase = "Running" /\ lastErr' \in ErrCodes \ {ErrCodeInternalServerError})
          => /\ phase' = "Failed"
             /\ ret'.err # NoError
             /\ fc' = fc
             /\ backoffs' = 0
             /\ slept' = 0
       /\ Aborted => calls' <= calls]_vars

\* a non-retryable error ended a call that had retried before and had budget left
C7_Witness ==
    /\ Aborted
    /\ calls >= 2
    /\ fc.Attempt >= 1
    /\ fc.Elapsed < fc.Cap
    /\ ~fc.MaxRetriesReached

\* C8: between any two consecutive provider submissions of one logical call
\* ExponentialBackoff is invoked exactly once.
C8_OneBackoffBetweenRounds == GoesOn => backoffs = 1

\* C9: a call that ends in Failed by a non-retryable error or by exhausted
\* retries returns an error and the unprocessed set of the last response.
C9_FailureReturnsUnprocessed ==
    (Aborted \/ Exhausted) =>
        /\ ret.err # NoError
        /\ ret.unprocessed.items = lastUnproc.items

\* C10: the error returned for a non-retryable provider error is the
\* provider's own error value, in all three operations.
C10_AbortErrorVerbatim == Aborted => ret.err = AwsErr(lastErr)

\* the size limits as the claim states them
ClaimLimit(o) == IF o = "BatchGet" THEN 100 ELSE 25

TooLarge(e) == e.msg = "too many items to process"

\* C11: a write batch of more than 25 items or a read batch of more than 100
\* keys fails with the input-too-large error before any provider call and
\* without touching the backoff state; a batch of exactly 25 write items or
\* exactly 100 read keys is not rejected by this check.
C11_OversizedRejectedFirst ==
    [][/\ (phase = "Idle" /\ phase' # "Idle" /\ size' > ClaimLimit(op'))
          => /\ phase' = "Failed"
             /\ TooLarge(ret'.err)
             /\ calls' = 0
             /\ fc' = fc
             /\ fcCalls' = <<>>
             /\ slept' = 0
       /\ (phase = "Idle" /\ phase' # "Idle" /\ size' = ClaimLimit(op'))
          => ~TooLarge(ret'.err)
       /\ (phase = "Failed" /\ size > ClaimLimit(op)) => calls' = 0]_vars

\* an oversized batch was refused on a FailConfig an earlier call had backed off on
C11_Witness ==
    /\ phase = "Failed"
    /\ size = ClaimLimit(op) + 1
    /\ TooLarge(ret.err)
    /\ fc.Attempt >= 1

\* a record of the latest response failed to decode
Undecoded == \E i \in DOMAIN slots : slots[i] = Partial

\* the first provider round of a call answered without error and with an
\* empty unprocessed set
CleanFirstRound ==
    phase = "Running" /\ calls = 0 /\ lastErr' = NoErr /\ Drained(lastUnproc')

\* C12: if the provider's first response has no error and an empty unprocessed
\* set, the call issues exactly one provider call, never invokes
\* ExponentialBackoff, and returns success.
C12_CleanFirstRoundSucceeds ==
    [][CleanFirstRound =>
          /\ calls' = 1
          /\ backoffs' = 0
          /\ phase' = "Succeeded"
          /\ ret'.err = NoError]_vars

\* C12 as amended: such a call issues exactly one provider call and never
\* invokes ExponentialBackoff; it returns success, except that BatchGet
\* returns an unmarshal error when a record of the response fails to decode.
C12_CleanFirstRoundOneCall ==
    [][CleanFirstRound =>
          /\ calls' = 1
          /\ backoffs' = 0
          /\ slept' = 0
          /\ IF Undecoded'
             THEN /\ op = "BatchGet"
                  /\ phase' = "Failed"
                  /\ ret'.err = Errorf(op, "Failed to unmarshal record", "")
             ELSE /\ phase' = "Succeeded"
                  /\ ret'.err = NoError]_vars

\* a BatchGet succeeded in one round that delivered a record
C12_Witness ==
    /\ op = "BatchGet"
    /\ phase = "Succeeded"
    /\ calls = 1
    /\ lastErr = NoErr
    /\ \E i \in DOMAIN slots : slots[i] \in 1..n

C15_WaitWithinRange ==
    [][(fcCalls' = <<"ExponentialBackoff">> /\ fc.Elapsed # fc.Cap) =>
          /\ fc'.Attempt = fc.Attempt + 1
          /\ 0 <= wait'
          /\ wait' < fc.Base * 2 ^ (fc'.Attempt)]_vars

\* the second or a later call drew the largest wait of its range
C15_Witness ==
    /\ fcCalls = <<"ExponentialBackoff">>
    /\ fc.Attempt >= 2
    /\ wait = fc.Base * 2 ^ (fc.Attempt) - 1

\* C16: Reset sets Attempt = 0, Elapsed = 0, MaxRetriesReached = false and
\* leaves Base and Cap; within a batch call it is invoked only when the last
\* provider response has an empty unprocessed set, and every call that
\* returns success has reset the backoff state before returning.
C16_ResetOnlyWhenDrained ==
    [][/\ (phase = "Running" /\ fcCalls' # <<>>
                /\ fcCalls'[Len(fcCalls')] = "Reset")
          => /\ Drained(lastUnproc')
             /\ fc' = [Base |-> fc.Base, Cap |-> fc.Cap, Attempt |-> 0,
                       Elapsed |-> 0, MaxRetriesReached |-> FALSE]
       /\ (phase = "Running" /\ phase' = "Succeeded")
          => /\ fcCalls' # <<>>
             /\ fcCalls'[Len(fcCalls')] = "Reset"
             /\ fc'.Attempt = 0
             /\ fc'.Elapsed = 0
             /\ ~fc'.MaxRetriesReached]_vars

\* a call succeeded in a round that backed off first and then reset
C16_Witness ==
    /\ phase = "Succeeded"
    /\ fcCalls = <<"ExponentialBackoff", "Reset">>
    /\ wait >= 1
    /\ fc.Attempt = 0
    /\ fc.Elapsed = 0

\* C17: the default backoff configuration is immutable: no step of a batch
\* call that uses it changes any of its fields.
C17_DefaultConfigImmutable == [][fc' = fc]_vars

\* C18: BatchGet returns an error, issues no provider call and leaves the
\* backoff state and all destination objects unchanged whenever the number of
\* queries differs from the number of reference objects.
C18_MismatchRejectedFirst ==
    [][/\ (phase = "Idle" /\ op' = "BatchGet" /\ size' # nrefs')
          => /\ phase' = "Failed"
             /\ ret'.err # NoError
             /\ calls' = 0
             /\ fc' = fc
             /\ fcCalls' = <<>>
             /\ \A i \in DOMAIN slots' : slots'[i] = 0
       /\ (phase = "Failed" /\ op = "BatchGet" /\ size # nrefs)
          => /\ calls' = 0
             /\ \A i \in DOMAIN slots' : slots'[i] = 0]_vars

\* a BatchGet with one reference object too many was refused on a FailConfig
\* an earlier call had backed off on
C18_Witness ==
    /\ phase = "Failed"
    /\ op = "BatchGet"
    /\ size >= 1
    /\ nrefs = size + 1
    /\ slots # <<>>
    /\ fc.Attempt >= 1

\* C19: within one logical call Attempt never decreases from the first
\* provider submission until the call reaches Succeeded or Failed; only the
\* Reset on success zeroes it.
C19_AttemptMonotone ==
    [][(phase = "Running" /\ phase' # "Succeeded") =>
          fc'.Attempt >= fc.Attempt]_vars

\* a call went on after a round that backed off
C19_Witness ==
    /\ phase = "Running"
    /\ calls >= 2
    /\ fc.Attempt >= 1
    /\ backoffs = 0

\* C20: with a provider that reports as unprocessed only what it was sent,
\* the request of round N+1 is a subset of the request of round N, and every
\* request is a subset of the original non-nil input items.
C20_RequestNeverGrows ==
    [][/\ (phase = "Running" /\ phase' = "Running") => input' \subseteq input
       /\ phase' = "Running" => input' \subseteq 1..n']_vars

\* a call goes on with a request that is a proper, non-empty part of its input
C20_Witness ==
    /\ phase = "Running"
    /\ calls >= 1
    /\ input # {}
    /\ input # 1..n

\* C21: for any sequence of batch calls run one after another on the same
\* FailConfig, each call begins with Attempt = 0, Elapsed = 0 and
\* MaxRetriesReached = false, whatever the outcome of the calls before it.
C21_CallBeginsFresh ==
    (phase = "Running" /\ calls = 0) =>
        /\ fc.Attempt = 0
        /\ fc.Elapsed = 0
        /\ ~fc.MaxRetriesReached

=============================================================================
